---- MODULE Spec2Model ----
(***************************************************************************)
(* Reference-counted smart pointer SP<T> with its counter class RC         *)
(* (SmartPointer.cpp, lines 165-266) and the client main() that uses it    *)
(* (lines 269-286).                                                        *)
(*                                                                         *)
(* Heap objects are named by allocation identity: every `new` yields an    *)
(* identifier that was never used before, so a pointer to a deleted        *)
(* object stays recognisable as dangling.  0 is the null pointer.          *)
(***************************************************************************)
EXTENDS Integers, FiniteSets, Sequences, TLC

\* Number of SP<T> objects a run may construct.
MaxHandles == 3
\* Number of T objects the client may allocate with new.
MaxVals == 2
\* The payload of a T object is an integer in 0..MaxData.
MaxData == 1

\* The null pointer, as written in the member initialisers pData(0), reference(0).
NullPtr == 0

Handles == 1..MaxHandles
\* Every RC is allocated by a constructor of SP, so there are at most MaxHandles of them.
RCs == 1..MaxHandles
Vals == 1..MaxVals
Data == 0..MaxData

VARIABLES
    alive,      \* alive[h]: "none" (not yet constructed), "live", "destroyed"
    pData,      \* pData[h]: SP<T>::pData, a T* (NullPtr or an element of Vals)
    reference,  \* reference[h]: SP<T>::reference, an RC* (NullPtr or an element of RCs)
    rc,         \* rc[c]: the RC object c: [made, deletes, count]
    obj,        \* obj[v]: the T object v: [made, deletes, data]
    linked,     \* pairs {q, p}: q was made from p by copy or assignment, neither touched since
    mainPc,     \* how far the history so far follows main() of lines 269-286; Off when it left it
    pc,         \* pc[h]: where the member function running on handle h stands, when threads interleave
    reg,        \* reg[h]: the value of count that function holds in a register
    src         \* src[h]: the handle sp the copy constructor of h copies from (0: none)

vars == <<alive, pData, reference, rc, obj, linked, mainPc, pc, reg, src>>

\* The variables of the interleaved member functions.
threadVars == <<pc, reg, src>>

\* ---------------------------------------------------------------------
\* The heap and the handles as one value, so that the member functions
\* can be written as functions from state to state and composed.
\* rel records the call of RC::Release made by the running member function.

NoRel == [c |-> 0, pre |-> 0, freed |-> FALSE, ret |-> 0]

Cur == [alive |-> alive, pData |-> pData, reference |-> reference,
        rc |-> rc, obj |-> obj, rel |-> NoRel]

\* The program's own state, without the record of calls.
Prog(s) == [alive |-> s.alive, pData |-> s.pData, reference |-> s.reference,
            rc |-> s.rc, obj |-> s.obj]

Min(S) == CHOOSE x \in S : \A y \in S : x <= y

Cap2(n) == IF n > 2 THEN 2 ELSE n

\* ---------------------------------------------------------------------
\* class RC, lines 165-183

\* new RC(): value-initialisation of a class without a user-provided
\* constructor zero-initialises count.
FreshRC(s) == Min({c \in RCs : ~s.rc[c].made})

NewRC(s, c) == [s EXCEPT !.rc[c] = [made |-> TRUE, deletes |-> 0, count |-> 0]]

\* void AddRef() { count++; }
AddRef(s, c) == [s EXCEPT !.rc[c].count = @ + 1]

\* int Release() { return --count; }
Release(s, c) ==
    [s EXCEPT !.rc[c].count = @ - 1,
              !.rel = [c |-> c, pre |-> s.rc[c].count,
                       freed |-> s.rc[c].deletes > 0,
                       ret |-> s.rc[c].count - 1]]

\* delete pData; deleting the null pointer does nothing.
DeleteT(s, v) ==
    IF v = NullPtr THEN s
    ELSE [s EXCEPT !.obj[v].deletes = Cap2(@ + 1), !.obj[v].data = 0]

\* delete reference;
DeleteRC(s, c) == [s EXCEPT !.rc[c].deletes = Cap2(@ + 1)]

\* ---------------------------------------------------------------------
\* template class SP, lines 191-266

\* Faulty default constructor: the increment is forgotten.
SPDefaultNoAddRef(s, h) ==
    LET c == FreshRC(s)
        s1 == [s EXCEPT !.alive[h] = "live", !.pData[h] = NullPtr,
                        !.reference[h] = NullPtr]
    IN  [NewRC(s1, c) EXCEPT !.reference[h] = c]

\* SP() : pData(0), reference(0) { reference = new RC(); reference->AddRef(); }
SPDefault(s, h) ==
    LET c == FreshRC(s)
        s1 == [s EXCEPT !.alive[h] = "live", !.pData[h] = NullPtr,
                        !.reference[h] = NullPtr]
        s2 == [NewRC(s1, c) EXCEPT !.reference[h] = c]
    IN  AddRef(s2, s2.reference[h])

\* SP(T* pValue) : pData(pValue), reference(0) { reference = new RC(); reference->AddRef(); }
SPValue(s, h, pValue) ==
    LET c == FreshRC(s)
        s1 == [s EXCEPT !.alive[h] = "live", !.pData[h] = pValue,
                        !.reference[h] = NullPtr]
        s2 == [NewRC(s1, c) EXCEPT !.reference[h] = c]
    IN  AddRef(s2, s2.reference[h])

\* Faulty copy constructor: the increment is forgotten.
SPCopyNoAddRef(s, h, sp) ==
    [s EXCEPT !.alive[h] = "live", !.pData[h] = s.pData[sp],
              !.reference[h] = s.reference[sp]]

\* Faulty copy constructor: the counter is shared but pData is left null.
SPCopyNoData(s, h, sp) ==
    LET s1 == [s EXCEPT !.alive[h] = "live", !.pData[h] = NullPtr,
                        !.reference[h] = s.reference[sp]]
    IN  AddRef(s1, s1.reference[h])

\* SP(const SP<T>& sp) : pData(sp.pData), reference(sp.reference) { reference->AddRef(); }
SPCopy(s, h, sp) ==
    LET s1 == [s EXCEPT !.alive[h] = "live", !.pData[h] = s.pData[sp],
                        !.reference[h] = s.reference[sp]]
    IN  AddRef(s1, s1.reference[h])

\* if(reference->Release() == 0) { delete pData; delete reference; }
\* (the body of ~SP and the first statement of operator=)
DropBinding(s, h) ==
    LET s1 == Release(s, s.reference[h])
    IN  IF s1.rel.ret = 0
        THEN DeleteRC(DeleteT(s1, s1.pData[h]), s1.reference[h])
        ELSE s1

\* Faulty destructor: deletes whatever the count is (the ~SP of lines 113-116).
SPDtorAlwaysDelete(s, h) ==
    LET s1 == Release(s, s.reference[h])
    IN  [DeleteT(s1, s1.pData[h]) EXCEPT !.alive[h] = "destroyed", !.pData[h] = NullPtr,
                                         !.reference[h] = NullPtr]

\* ~SP(); afterwards the object h no longer exists.
SPDtor(s, h) ==
    [DropBinding(s, h) EXCEPT !.alive[h] = "destroyed", !.pData[h] = NullPtr,
                              !.reference[h] = NullPtr]

\* Faulty assignment: no test for self-assignment.
OperatorAssignNoSelfCheck(s, this, sp) ==
    LET s1 == DropBinding(s, this)
        s2 == [s1 EXCEPT !.pData[this] = s1.pData[sp],
                         !.reference[this] = s1.reference[sp]]
    IN  AddRef(s2, s2.reference[this])

\* Faulty assignment: the increment of the new binding is forgotten.
OperatorAssignNoAddRef(s, this, sp) ==
    IF this # sp
    THEN LET s1 == DropBinding(s, this)
         IN  [s1 EXCEPT !.pData[this] = s1.pData[sp],
                        !.reference[this] = s1.reference[sp]]
    ELSE s

\* Faulty assignment: the old binding is overwritten without being dropped.
OperatorAssignNoRelease(s, this, sp) ==
    IF this # sp
    THEN LET s2 == [s EXCEPT !.pData[this] = s.pData[sp],
                             !.reference[this] = s.reference[sp]]
         IN  AddRef(s2, s2.reference[this])
    ELSE s

\* Faulty assignment: the old count is decremented but nothing is deleted.
OperatorAssignLeak(s, this, sp) ==
    IF this # sp
    THEN LET s1 == Release(s, s.reference[this])
             s2 == [s1 EXCEPT !.pData[this] = s1.pData[sp],
                              !.reference[this] = s1.reference[sp]]
         IN  AddRef(s2, s2.reference[this])
    ELSE s

\* Faulty assignment: the counter is rebound but pData keeps its old value.
OperatorAssignKeepsData(s, this, sp) ==
    IF this # sp
    THEN LET s1 == DropBinding(s, this)
             s2 == [s1 EXCEPT !.reference[this] = s1.reference[sp]]
         IN  AddRef(s2, s2.reference[this])
    ELSE s

\* Faulty assignment: ownership is taken from the source, whose pData is set to null.
OperatorAssignStealsSource(s, this, sp) ==
    IF this # sp
    THEN LET s1 == DropBinding(s, this)
             s2 == [s1 EXCEPT !.pData[this] = s1.pData[sp],
                              !.reference[this] = s1.reference[sp]]
             s3 == [s2 EXCEPT !.pData[sp] = NullPtr]
         IN  AddRef(s3, s3.reference[this])
    ELSE s

\* SP<T>& operator = (const SP<T>& sp); this is the object `this`.
OperatorAssign(s, this, sp) ==
    IF this # sp
    THEN LET s1 == DropBinding(s, this)
             s2 == [s1 EXCEPT !.pData[this] = s1.pData[sp],
                              !.reference[this] = s1.reference[sp]]
         IN  AddRef(s2, s2.reference[this])
    ELSE s

\* T* operator-> () { return pData; }
OperatorArrow(s, h) == {[kind |-> "pointer", v |-> s.pData[h]]}

\* T& operator* () { return *pData; }  The outcomes of one call.  With a
\* null pData the expression *pData is undefined: the build either traps
\* or hands back a reference to address 0.
OperatorStar(s, h) ==
    IF s.pData[h] # NullPtr
    THEN {[kind |-> "reference", v |-> s.pData[h]]}
    ELSE {[kind |-> "trap", v |-> NullPtr], [kind |-> "reference", v |-> NullPtr]}

\* ---------------------------------------------------------------------
\* main(), lines 269-286: p is handle 1, q is handle 2, r is handle 3.

Off == 0 - 1

MainScript == <<
    [op |-> "ConstructValue", h |-> 1, src |-> 0],   \* SP<PERSON> p(new Person("Scott", 25));
    [op |-> "MemberAccess",   h |-> 1, src |-> 0],   \* p->Display();
    [op |-> "Duplicate",      h |-> 2, src |-> 1],   \* SP<PERSON> q = p;
    [op |-> "MemberAccess",   h |-> 2, src |-> 0],   \* q->Display();
    [op |-> "ConstructEmpty", h |-> 3, src |-> 0],   \* SP<PERSON> r;
    [op |-> "Reassign",       h |-> 3, src |-> 1],   \* r = p;
    [op |-> "MemberAccess",   h |-> 3, src |-> 0],   \* r->Display();
    [op |-> "Destroy",        h |-> 3, src |-> 0],   \* } destructor of r
    [op |-> "Destroy",        h |-> 2, src |-> 0],   \* } destructor of q
    [op |-> "MemberAccess",   h |-> 1, src |-> 0],   \* p->Display();
    [op |-> "Destroy",        h |-> 1, src |-> 0] >> \* } destructor of p

MainStep(op, h, from) ==
    IF mainPc # Off /\ mainPc < Len(MainScript)
       /\ MainScript[mainPc + 1] = [op |-> op, h |-> h, src |-> from]
    THEN mainPc + 1
    ELSE Off

\* ---------------------------------------------------------------------
\* The state machine

Init ==
    /\ alive = [h \in Handles |-> "none"]
    /\ pData = [h \in Handles |-> NullPtr]
    /\ reference = [h \in Handles |-> NullPtr]
    /\ rc = [c \in RCs |-> [made |-> FALSE, deletes |-> 0, count |-> 0]]
    /\ obj = [v \in Vals |-> [made |-> FALSE, deletes |-> 0, data |-> 0]]
    /\ linked = {}
    /\ mainPc = 0
    /\ pc = [h \in Handles |-> "idle"]
    /\ reg = [h \in Handles |-> 0]
    /\ src = [h \in Handles |-> 0]

\* The state n becomes the program's state; op, h, from name the call.
Commit(n, op, h, from) ==
    /\ alive' = n.alive
    /\ pData' = n.pData
    /\ reference' = n.reference
    /\ rc' = n.rc
    /\ obj' = n.obj
    /\ mainPc' = MainStep(op, h, from)
    /\ UNCHANGED threadVars

Live == {h \in Handles : alive[h] = "live"}

\* Objects are declared one after the other: the next SP object is the
\* lowest handle not yet constructed.
IsNextHandle(h) ==
    /\ h \in Handles
    /\ alive[h] = "none"
    /\ \A g \in Handles : alive[g] = "none" => h <= g

\* The client's new T(d): the lowest T object not yet allocated.
IsNextVal(v) ==
    /\ v \in Vals
    /\ ~obj[v].made
    /\ \A w \in Vals : ~obj[w].made => v <= w

\* The pairs of linked that do not involve h.
Unlink(h) == {pr \in linked : h \notin pr}

\* SP<T> h;
ConstructEmpty(h) ==
    /\ IsNextHandle(h)
    /\ Commit(SPDefault(Cur, h), "ConstructEmpty", h, 0)
    /\ linked' = linked

\* The state after SP<T> h(new T(d)), v being the object new returns.
Constructed(h, v, d) ==
    SPValue([Cur EXCEPT !.obj[v] = [made |-> TRUE, deletes |-> 0, data |-> d]], h, v)

\* SP<T> h(new T(d));   v is the object new returns, d its initial payload
ConstructValue(h, v, d) ==
    /\ IsNextHandle(h)
    /\ IsNextVal(v)
    /\ Commit(Constructed(h, v, d), "ConstructValue", h, 0)
    /\ linked' = linked

\* SP<T> h = sp;   or   SP<T> h(sp);
Duplicate(h, sp) ==
    /\ IsNextHandle(h)
    /\ sp \in Live
    /\ Commit(SPCopy(Cur, h, sp), "Duplicate", h, sp)
    /\ linked' = linked \cup {{h, sp}}

\* this = sp;
Reassign(this, sp) ==
    /\ this \in Live
    /\ sp \in Live
    /\ Commit(OperatorAssign(Cur, this, sp), "Reassign", this, sp)
    /\ linked' = IF this = sp THEN linked ELSE Unlink(this) \cup {{this, sp}}

\* h goes out of scope.
Destroy(h) ==
    /\ h \in Live
    /\ Commit(SPDtor(Cur, h), "Destroy", h, 0)
    /\ linked' = Unlink(h)

\* *h evaluated by the client, with outcome r; the result goes to the client.
Dereference(h, r) ==
    /\ h \in Live
    /\ r \in OperatorStar(Cur, h)
    /\ Commit(Cur, "Dereference", h, 0)
    /\ linked' = linked

\* h-> evaluated by the client, with outcome r; the result goes to the client.
MemberAccess(h, r) ==
    /\ h \in Live
    /\ r \in OperatorArrow(Cur, h)
    /\ Commit(Cur, "MemberAccess", h, 0)
    /\ linked' = linked

\* The T objects *h gives access to in state s.
Reached(s, h) == {r.v : r \in {x \in OperatorStar(s, h) : x.kind = "reference" /\ x.v # NullPtr}}

\* The payloads a read through *h can yield in state s.
SeenIn(s, h) == {s.obj[v].data : v \in Reached(s, h)}

\* The states a write of d through *h can lead to.
Written(h, d) == {[Cur EXCEPT !.obj[v].data = d] : v \in Reached(Cur, h)}

\* The client writes d into the T object it reaches through *h.
Mutate(h, d) ==
    /\ h \in Live
    /\ \E n \in Written(h, d) : Commit(n, "Mutate", h, d)
    /\ linked' = linked

\* The payload main gives its T object: new Person("Scott", 25).
FreshData == {0}

Next ==
    \/ \E h \in Handles : ConstructEmpty(h)
    \/ \E h \in Handles, v \in Vals, d \in FreshData : ConstructValue(h, v, d)
    \/ \E h \in Handles, sp \in Handles : Duplicate(h, sp)
    \/ \E this \in Handles, sp \in Handles : Reassign(this, sp)
    \/ \E h \in Handles : Destroy(h)
    \/ \E h \in Live : \E r \in OperatorStar(Cur, h) : Dereference(h, r)
    \/ \E h \in Live : \E r \in OperatorArrow(Cur, h) : MemberAccess(h, r)
    \/ \E h \in Handles, d \in Data : Mutate(h, d)

Spec == Init /\ [][Next]_vars

\* ---------------------------------------------------------------------
\* Vocabulary of the properties

\* The live handles whose counter pointer is c.
Holders(c) == {h \in Live : reference[h] = c}

\* The live handles whose value pointer is v.
Owners(v) == {h \in Live : pData[h] = v}

\* The RC object c is allocated and not freed.
RCLive(c) == c \in RCs /\ rc[c].made /\ rc[c].deletes = 0

\* The T object v is allocated and not released.
ObjLive(v) == v \in Vals /\ obj[v].made /\ obj[v].deletes = 0

\* ---------------------------------------------------------------------
\* C1 (single release): an owned value is never released twice; once no
\* handle is left every value that was handed to a handle has been
\* released exactly once; and a step releases a value exactly when the
\* last live handle bound to it leaves it in that step (by its destructor,
\* or by being assigned another binding, which the destruction path of
\* operator= performs).

C1_NeverTwice == \A v \in Vals : obj[v].deletes <= 1

C1_AllGone == Live = {} => \A v \in Vals : obj[v].made => obj[v].deletes = 1

C1_Step ==
    \A v \in Vals :
        /\ (obj[v].deletes = 0 /\ obj'[v].deletes > 0) =>
               \E h \in Live :
                   /\ Owners(v) = {h}
                   /\ (alive'[h] = "destroyed" \/ pData'[h] # v)
                   /\ obj'[v].deletes = 1
        /\ (ObjLive(v) /\ Owners(v) # {} /\ {h \in Owners(v) : alive'[h] = "live" /\ pData'[h] = v} = {}) =>
               obj'[v].deletes = 1

C1_SingleRelease == [](C1_NeverTwice /\ C1_AllGone) /\ [][C1_Step]_vars

\* Three handles shared value 1 through one counter (no second counter was
\* ever allocated), all three are gone, and the value was released once.
C1_Witness ==
    /\ \A h \in 1..3 : alive[h] = "destroyed"
    /\ obj[1].deletes = 1
    /\ rc[1].deletes = 1
    /\ ~rc[2].made

\* ---------------------------------------------------------------------
\* C2 (count matches live handles): the count of every counter that is
\* allocated and not freed is the number of live handles whose counter
\* pointer refers to it.

C2_CountMatchesHandles ==
    \A c \in RCs : RCLive(c) => rc[c].count = Cardinality(Holders(c))

\* A counter shared by two live handles while another counter has its own handle.
C2_Witness ==
    \E c \in RCs : RCLive(c) /\ Cardinality(Holders(c)) = 2
                   /\ \E c2 \in RCs \ {c} : RCLive(c2) /\ Holders(c2) # {}

\* ---------------------------------------------------------------------
\* C3 (no dangling handle): every live handle's counter pointer refers to
\* a counter that is not freed and its value pointer is null or refers to
\* a value that is not released, so that *h on a bound handle yields that
\* value; this holds in particular after one of two handles of a
\* duplicated binding was destroyed.

C3_NoDangling ==
    \A h \in Live :
        /\ RCLive(reference[h])
        /\ pData[h] # NullPtr =>
               /\ ObjLive(pData[h])
               /\ OperatorStar(Cur, h) = {[kind |-> "reference", v |-> pData[h]]}

\* p wrapped value 1, q copied p, then one of the two was destroyed: the
\* other is live and still bound to value 1, which is not released.
C3_Witness ==
    /\ \E h \in 1..2 : alive[h] = "destroyed" /\ alive[3 - h] = "live" /\ pData[3 - h] = 1
    /\ ~rc[2].made
    /\ ObjLive(1)

\* ---------------------------------------------------------------------
\* C4 (self-reassignment safety): in every reachable state, h = h on any
\* live handle h, bound or empty and whatever its count, leaves every
\* handle's two pointers, every count and every object's released status
\* unchanged and invokes no Release.

C4_SelfAssignNoOp ==
    \A h \in Live :
        LET n == OperatorAssign(Cur, h, h)
        IN  /\ Prog(n) = Prog(Cur)
            /\ n.rel = NoRel

\* A bound handle that is the sole owner of its value (the dangerous case),
\* next to a live empty handle that is the sole holder of its counter.
C4_Witness ==
    /\ \E h \in Live : pData[h] # NullPtr /\ rc[reference[h]].count = 1
    /\ \E h \in Live : pData[h] = NullPtr /\ rc[reference[h]].count = 1

\* ---------------------------------------------------------------------
\* C5 (release on reassignment).  What the call this = sp releases:

\* The call that led from the current state to n freed counter c.
FreedBy(n, c) == n.rc[c].deletes > rc[c].deletes

\* The call that led from the current state to n released value v (none if v is null).
ReleasedBy(n, v) == v # NullPtr /\ n.obj[v].deletes > obj[v].deletes

\* this's old binding is released during this = sp exactly when this was its sole owner.
ReleasesOldIffSole(this, sp) ==
    LET n == OperatorAssign(Cur, this, sp)
        c == reference[this]
        v == pData[this]
    IN  IF rc[c].count = 1
        THEN FreedBy(n, c) /\ (v # NullPtr => ReleasedBy(n, v))
        ELSE ~FreedBy(n, c) /\ ~ReleasedBy(n, v)

\* p bound to V1 and q bound to V2, each at count 1: p = q releases V1,
\* leaves V2's count at 2, and p and q both refer to V2.
ScenarioC(this, sp) ==
    LET n == OperatorAssign(Cur, this, sp)
    IN  (/\ pData[this] # NullPtr /\ pData[sp] # NullPtr
         /\ pData[this] # pData[sp]
         /\ rc[reference[this]].count = 1 /\ rc[reference[sp]].count = 1) =>
            /\ n.obj[pData[this]].deletes = 1
            /\ n.rc[reference[sp]].count = 2
            /\ n.pData[this] = pData[sp] /\ n.pData[sp] = pData[sp]
            /\ n.reference[this] = reference[sp] /\ n.reference[sp] = reference[sp]
            /\ n.obj[pData[sp]].deletes = 0

\* C5 as stated: for every Reassign(target, source), target's old binding
\* is released during the call if and only if target was its sole owner.
C5_AsStated ==
    \A this \in Live, sp \in Live : ReleasesOldIffSole(this, sp) /\ ScenarioC(this, sp)

\* C5 as amended: for every Reassign(target, source) between two distinct
\* handle objects, target's old binding (its counter, and its value when it
\* has one) is released during the call if and only if target was that
\* binding's sole owner (count 1) before the call; and Scenario C.
C5_ReleaseIffSoleOwner ==
    \A this \in Live, sp \in Live :
        this # sp => ReleasesOldIffSole(this, sp) /\ ScenarioC(this, sp)

\* The state Scenario C ends in: p and q are live and both refer to V2 and
\* its counter, whose count is 2; V1 and its counter are released.
C5_Witness ==
    /\ alive[1] = "live" /\ alive[2] = "live"
    /\ pData[1] = 2 /\ pData[2] = 2
    /\ reference[1] = 2 /\ reference[2] = 2
    /\ rc[2].count = 2 /\ ObjLive(2)
    /\ obj[1].deletes = 1 /\ rc[1].deletes = 1

\* ---------------------------------------------------------------------
\* C6 (reassign = destroy, then duplicate): in every reachable state, for
\* two distinct live handles this and sp, the handles, counts and released
\* objects after this = sp are those after destroying this and constructing
\* it anew as a copy of sp.

C6_AssignIsDtorThenCopy ==
    \A this \in Live, sp \in Live :
        this # sp =>
            Prog(OperatorAssign(Cur, this, sp)) = Prog(SPCopy(SPDtor(Cur, this), this, sp))

\* No handle was destroyed, yet a counter is freed and its handle is bound
\* to another counter: an assignment dropped its target's binding.
C6_Witness ==
    /\ \A h \in Handles : alive[h] # "destroyed"
    /\ \E c \in RCs : rc[c].deletes = 1
    /\ \E c \in RCs : RCLive(c) /\ Cardinality(Holders(c)) >= 2

\* ---------------------------------------------------------------------
\* C7 (value visibility): while q and p are related by q = copy of p or by
\* q = p and neither has been rebound or destroyed since, both are live,
\* q-> and p-> return the same pointer, *q and *p yield the same value,
\* which is not released, and so the same payload; and a payload written
\* through either handle is the payload read through the other.

\* The payloads a read through *h can yield now.
Seen(h) == SeenIn(Cur, h)

C7_SameValue ==
    \A pr \in linked : \A p \in pr, q \in pr :
        /\ p \in Live /\ q \in Live
        /\ OperatorArrow(Cur, p) = OperatorArrow(Cur, q)
        /\ pData[p] # NullPtr =>
               /\ ObjLive(pData[p])
               /\ OperatorStar(Cur, p) = {[kind |-> "reference", v |-> pData[p]]}
               /\ OperatorStar(Cur, q) = OperatorStar(Cur, p)
               /\ Seen(q) = Seen(p)

\* Whatever write through a live handle comes next, the payload written
\* is what a read through that handle and through every handle related to
\* it yields afterwards.
C7_WriteSeen ==
    \A h \in Live, d \in Data : \A n \in Written(h, d) :
        /\ SeenIn(n, h) = {d}
        /\ \A g \in Handles : {h, g} \in linked => SeenIn(n, g) = {d}

C7_ValueVisibility == C7_SameValue /\ C7_WriteSeen

\* Two related handles whose value holds a payload that only a write
\* through a handle can have put there.
C7_Witness ==
    \E pr \in linked : \E p \in pr, q \in pr :
        p # q /\ pData[p] # NullPtr /\ Seen(p) = {1} /\ Seen(q) = {1}

\* ---------------------------------------------------------------------
\* C8 (null dereference is a detected error): *h and h-> on a live handle
\* whose pData is null have one outcome, the null-access error, and never
\* hand a pointer or a reference to the caller.

NullAccessError == [kind |-> "null-access error", v |-> NullPtr]

C8_NullAccessDetected ==
    \A h \in Live :
        pData[h] = NullPtr =>
            /\ OperatorStar(Cur, h) = {NullAccessError}
            /\ OperatorArrow(Cur, h) = {NullAccessError}

\* ---------------------------------------------------------------------
\* C9 (count steps): in every reachable state, whichever operation comes
\* next, construction from a raw value leaves a fresh counter
\* at 1; a copy of a handle, and an assignment that binds a handle of
\* another binding to it, raise the binding's count by 1; a destructor
\* lowers it by 1; while a counter's count is positive the value of its
\* handles is not released and *h yields it; and along main() the count of
\* p's binding is 1, 2, 2, 3, 2, 1 and the value is released by p's
\* destructor and not before.

\* Whichever operation comes next, its effect on the count:
C9_Steps ==
    /\ \A h \in Handles, v \in Vals, d \in Data :
           (IsNextHandle(h) /\ IsNextVal(v)) =>
               LET n == Constructed(h, v, d)
                   c == n.reference[h]
               IN  /\ ~rc[c].made
                   /\ n.rc[c].count = 1
                   /\ {g \in Handles : n.alive[g] = "live" /\ n.reference[g] = c} = {h}
    /\ \A h \in Handles, sp \in Live :
           IsNextHandle(h) =>
               LET n == SPCopy(Cur, h, sp)
               IN  /\ n.reference[h] = reference[sp]
                   /\ n.rc[reference[sp]].count = rc[reference[sp]].count + 1
    /\ \A this \in Live, sp \in Live :
           reference[this] # reference[sp] =>
               LET n == OperatorAssign(Cur, this, sp)
               IN  /\ n.reference[this] = reference[sp]
                   /\ n.rc[reference[sp]].count = rc[reference[sp]].count + 1
    /\ \A h \in Live :
           SPDtor(Cur, h).rc[reference[h]].count = rc[reference[h]].count - 1

C9_PositiveMeansAccessible ==
    \A c \in RCs :
        (rc[c].made /\ rc[c].count > 0) =>
            \A h \in Holders(c) :
                pData[h] # NullPtr =>
                    /\ ObjLive(pData[h])
                    /\ OperatorStar(Cur, h) = {[kind |-> "reference", v |-> pData[h]]}

\* The count of p's binding after each statement of main but the last.
MainCounts == <<1, 1, 2, 2, 2, 3, 3, 2, 1, 1>>

C9_Main ==
    /\ (mainPc # Off /\ mainPc >= 1 /\ mainPc <= Len(MainCounts)) =>
           /\ alive[1] = "live"
           /\ rc[reference[1]].count = MainCounts[mainPc]
           /\ pData[1] = 1 /\ ObjLive(1)
    /\ mainPc = Len(MainScript) =>
           /\ obj[1].deletes = 1
           /\ Live = {}

C9_CountSteps == C9_PositiveMeansAccessible /\ C9_Main /\ C9_Steps

\* main() has run to its end.
C9_Witness == mainPc = Len(MainScript) /\ obj[1].deletes = 1 /\ rc[2].deletes = 1

\* ---------------------------------------------------------------------
\* C10 (no counter underflow): every counter that is allocated and not
\* freed has a count of at least 1, and in every reachable state whichever
\* destructor or assignment runs next, the Release it invokes is on a
\* counter that is not freed and whose count is at least 1.

\* The call recorded in r is on a live counter with a positive count.
SoundRelease(r) == r.c # NullPtr => (r.pre >= 1 /\ ~r.freed)

C10_NoUnderflow ==
    /\ \A c \in RCs : RCLive(c) => rc[c].count >= 1
    /\ \A c \in RCs : rc[c].count >= 0
    /\ \A h \in Live : SoundRelease(SPDtor(Cur, h).rel)
    /\ \A this \in Live, sp \in Live : SoundRelease(OperatorAssign(Cur, this, sp).rel)

\* A counter was decremented to zero and freed while another counter is
\* shared by two handles, one of which is about to release it.
C10_Witness ==
    /\ \E c \in RCs : rc[c].made /\ rc[c].deletes = 1 /\ rc[c].count = 0
    /\ \E h \in Live : SPDtor(Cur, h).rel.pre = 2

\* ---------------------------------------------------------------------
\* C11 (counter lifecycle, no leak): no counter is freed twice; whichever
\* destructor or assignment runs next frees a counter exactly when its
\* Release returned zero, frees no other counter, and releases the
\* binding's value in that same call; the allocated, unfreed counters are
\* exactly the counters some live handle refers to; and once no handle is
\* live no counter and no value remains allocated.

\* The call that led to n freed counter c, together with v when v is not
\* null, exactly when its Release returned zero; it freed nothing else.
FreesOnZero(n, c, v) ==
    /\ n.rel.c = c
    /\ FreedBy(n, c) <=> (n.rel.ret = 0)
    /\ v # NullPtr => (ReleasedBy(n, v) <=> (n.rel.ret = 0))
    /\ \A d \in RCs \ {c} : ~FreedBy(n, d)
    /\ \A w \in Vals \ {v} : ~ReleasedBy(n, w)

C11_Lifecycle ==
    /\ \A h \in Live : FreesOnZero(SPDtor(Cur, h), reference[h], pData[h])
    /\ \A this \in Live, sp \in Live :
           this # sp => FreesOnZero(OperatorAssign(Cur, this, sp), reference[this], pData[this])

C11_NoLeak ==
    /\ \A c \in RCs : rc[c].deletes <= 1
    /\ {c \in RCs : RCLive(c)} = {reference[h] : h \in Live}
    /\ Live = {} => (\A c \in RCs : ~RCLive(c)) /\ (\A v \in Vals : ~ObjLive(v))

C11_CounterLifecycle == C11_Lifecycle /\ C11_NoLeak

\* main() after r = p: the fresh counter of the default-constructed r was
\* freed by the assignment, and the one allocated counter is p's.
C11_Witness ==
    /\ mainPc = 6
    /\ rc[2].made /\ rc[2].deletes = 1
    /\ {c \in RCs : RCLive(c)} = {1}

\* ---------------------------------------------------------------------
\* C12 (empty handles follow the protocol): the default constructor yields
\* a handle with a null pData and a fresh counter at exactly 1; copying or
\* assigning from an empty handle shares its counter and raises it by 1;
\* and when the last handle of an empty binding is destroyed or assigned
\* another binding the counter is freed and no T object is touched.

IsEmpty(h) == h \in Live /\ pData[h] = NullPtr

C12_EmptyProtocol ==
    /\ \A h \in Handles :
           IsNextHandle(h) =>
               LET n == SPDefault(Cur, h)
                   c == n.reference[h]
               IN  /\ n.alive[h] = "live"
                   /\ n.pData[h] = NullPtr
                   /\ c \in RCs /\ ~rc[c].made
                   /\ n.rc[c] = [made |-> TRUE, deletes |-> 0, count |-> 1]
                   /\ n.obj = obj
    /\ \A h \in Handles, sp \in Live :
           (IsNextHandle(h) /\ IsEmpty(sp)) =>
               LET n == SPCopy(Cur, h, sp)
               IN  /\ n.pData[h] = NullPtr
                   /\ n.reference[h] = reference[sp]
                   /\ n.rc[reference[sp]].count = rc[reference[sp]].count + 1
                   /\ n.obj = obj
    /\ \A this \in Live, sp \in Live :
           (IsEmpty(sp) /\ reference[this] # reference[sp]) =>
               LET n == OperatorAssign(Cur, this, sp)
               IN  /\ n.pData[this] = NullPtr
                   /\ n.reference[this] = reference[sp]
                   /\ n.rc[reference[sp]].count = rc[reference[sp]].count + 1
    /\ \A h \in Live :
           (IsEmpty(h) /\ rc[reference[h]].count = 1) =>
               /\ LET n == SPDtor(Cur, h)
                  IN  FreedBy(n, reference[h]) /\ n.rc[reference[h]].deletes = 1 /\ n.obj = obj
               /\ \A sp \in Live \ {h} :
                      LET n == OperatorAssign(Cur, h, sp)
                      IN  FreedBy(n, reference[h]) /\ n.rc[reference[h]].deletes = 1
                          /\ n.obj = obj

\* No T object was ever allocated: one empty binding was dropped by its
\* last handle and another is shared by two empty handles.
C12_Witness ==
    /\ \A v \in Vals : ~obj[v].made
    /\ \E c \in RCs : rc[c].deletes = 1
    /\ \E c \in RCs : RCLive(c) /\ rc[c].count = 2 /\ Cardinality(Holders(c)) = 2

\* ---------------------------------------------------------------------
\* C13 (per-handle state machine).  The state of a handle:

HState(s, h) ==
    IF s.alive[h] = "live"
    THEN (IF s.pData[h] = NullPtr THEN "Empty" ELSE "Bound")
    ELSE s.alive[h]

\* Every handle other than h has in n the state it has now.
OthersKeepState(n, h) == \A g \in Handles \ {h} : HState(n, g) = HState(Cur, g)

\* What each operation that can come next does to the states of the handles.
C13_Operations ==
    /\ \A h \in Handles :
           IsNextHandle(h) =>
               /\ HState(SPDefault(Cur, h), h) = "Empty"
               /\ OthersKeepState(SPDefault(Cur, h), h)
    /\ \A h \in Handles, v \in Vals, d \in Data :
           (IsNextHandle(h) /\ IsNextVal(v)) =>
               /\ HState(Constructed(h, v, d), h) = "Bound"
               /\ OthersKeepState(Constructed(h, v, d), h)
    /\ \A h \in Handles, sp \in Live :
           IsNextHandle(h) =>
               /\ HState(SPCopy(Cur, h, sp), h) = HState(Cur, sp)
               /\ OthersKeepState(SPCopy(Cur, h, sp), h)
    /\ \A h \in Live :
           /\ HState(SPDtor(Cur, h), h) = "destroyed"
           /\ OthersKeepState(SPDtor(Cur, h), h)
    /\ \A h \in Live, d \in Data : \A n \in Written(h, d) :
           \A g \in Handles : HState(n, g) = HState(Cur, g)

\* The state of the target after this = sp is the state of the source.
C13_AssignTakesSourceState ==
    \A this \in Live, sp \in Live :
        /\ HState(OperatorAssign(Cur, this, sp), this) = HState(Cur, sp)
        /\ OthersKeepState(OperatorAssign(Cur, this, sp), this)

\* No step takes a Bound handle to Empty.
C13_NoBoundToEmpty ==
    \A h \in Handles : HState(Cur, h) = "Bound" => HState(Cur, h)' # "Empty"

\* In a step a destroyed handle stays destroyed, a live handle is not
\* unmade, and at most one handle changes its state.
C13_Step ==
    /\ \A h \in Handles :
           /\ alive[h] = "destroyed" => alive'[h] = "destroyed"
           /\ alive[h] = "live" => alive'[h] \in {"live", "destroyed"}
    /\ \A g \in Handles, h \in Handles :
           (HState(Cur, g) # HState(Cur, g)' /\ HState(Cur, h) # HState(Cur, h)') => g = h

\* C13 as stated: a live handle is Empty or Bound; its only transitions
\* are Empty -> Bound (assignment from a non-empty source), Bound -> Bound
\* (assignment) and Empty/Bound -> Destroyed, which is terminal; no
\* assignment takes a Bound handle to Empty; operations on other handles
\* never change this handle's state.
C13_AsStated ==
    [](C13_Operations) /\ [][C13_Step /\ C13_NoBoundToEmpty]_vars

\* C13 as amended: a live handle is Empty or Bound; an assignment gives
\* the target the state of its source, so the transitions of a live handle
\* are Empty -> Bound and Bound -> Bound (assignment from a non-empty
\* source), Bound -> Empty and Empty -> Empty (assignment from an empty
\* source), and Empty/Bound -> Destroyed, which is terminal; operations on
\* other handles never change this handle's state.
C13_StateMachine ==
    [](C13_Operations /\ C13_AssignTakesSourceState) /\ [][C13_Step]_vars

\* No handle was destroyed and no second T object was allocated, yet value
\* 1 is released: its sole owner was assigned from an empty handle and is
\* now Empty itself.
C13_Witness ==
    /\ \A h \in Handles : alive[h] # "destroyed"
    /\ obj[1].deletes = 1
    /\ ~obj[2].made
    /\ \E h \in Live : IsEmpty(h) /\ Cardinality(Holders(reference[h])) >= 2

\* ---------------------------------------------------------------------
\* C14 (assignment within one binding): in every reachable state, for two
\* distinct live handles whose pData and reference are equal, this = sp
\* leaves every pointer, every count and every object as it was, and the
\* Release it invokes returns at least 1, so nothing is released.

SameBinding(g, h) == pData[g] = pData[h] /\ reference[g] = reference[h]

C14_SameBindingNoOp ==
    \A this \in Live, sp \in Live :
        (this # sp /\ SameBinding(this, sp)) =>
            LET n == OperatorAssign(Cur, this, sp)
            IN  /\ Prog(n) = Prog(Cur)
                /\ n.rel.c # NullPtr => n.rel.ret >= 1
                /\ \A c \in RCs : ~FreedBy(n, c)
                /\ \A v \in Vals : ~ReleasedBy(n, v)

\* Exactly two live handles share a value and its counter, whose count is
\* 2: the decrement inside the assignment takes it to 1, not to 0.
C14_Witness ==
    \E g \in Live, h \in Live :
        /\ g # h /\ SameBinding(g, h)
        /\ pData[g] # NullPtr
        /\ rc[reference[g]].count = 2
        /\ OperatorAssign(Cur, g, h).rel.ret = 1

\* ---------------------------------------------------------------------
\* C15 (frame of copy, assignment and destructor): whichever of them runs
\* next, the source's two pointers are unchanged; an assignment changes
\* only the target's two pointers, the old binding of the target (count
\* minus 1, released at zero) and the count of the source's binding (plus
\* 1); a destructor changes only the binding of its handle (count minus 1,
\* released at zero); a copy changes only the count of the source's
\* binding (plus 1); the pointers of every other handle and every other
\* counter and T object are as before.

\* Between now and n only the handles in hs changed a pointer or their
\* lifetime, only the counters in cs changed and only the T objects in vs.
OnlyChanged(n, hs, cs, vs) ==
    /\ \A g \in Handles \ hs :
           /\ n.pData[g] = pData[g]
           /\ n.reference[g] = reference[g]
           /\ n.alive[g] = alive[g]
    /\ \A c \in RCs \ cs : n.rc[c] = rc[c]
    /\ \A v \in Vals \ vs : n.obj[v] = obj[v]

\* The net change of the count of counter c between now and n.
Delta(n, c) == n.rc[c].count - rc[c].count

C15_Frame ==
    /\ \A h \in Handles, sp \in Live :
           IsNextHandle(h) =>
               LET n == SPCopy(Cur, h, sp)
               IN  /\ OnlyChanged(n, {h}, {reference[sp]}, {})
                   /\ Delta(n, reference[sp]) = 1
                   /\ n.rc[reference[sp]].deletes = rc[reference[sp]].deletes
    /\ \A this \in Live, sp \in Live :
           LET n == OperatorAssign(Cur, this, sp)
               old == reference[this]
               new == reference[sp]
           IN  /\ OnlyChanged(n, {this}, {old, new}, {pData[this]})
               /\ n.alive[this] = "live"
               /\ this # sp => (n.pData[this] = pData[sp] /\ n.reference[this] = new)
               /\ (this # sp /\ old # new) => (Delta(n, old) = 0 - 1 /\ Delta(n, new) = 1)
               /\ (this = sp \/ old = new) => Delta(n, old) = 0
               /\ n.rc[new].deletes = rc[new].deletes
    /\ \A h \in Live :
           LET n == SPDtor(Cur, h)
           IN  /\ OnlyChanged(n, {h}, {reference[h]}, {pData[h]})
               /\ Delta(n, reference[h]) = 0 - 1

\* Three live handles on three bindings: for any target and source there is
\* a further handle and a further binding that must stay as they are.
C15_Witness ==
    /\ Cardinality(Live) >= 3
    /\ \E a \in Live, b \in Live, c \in Live :
           /\ reference[a] # reference[b]
           /\ reference[a] # reference[c]
           /\ reference[b] # reference[c]
           /\ pData[a] # NullPtr /\ pData[b] # NullPtr

\* ---------------------------------------------------------------------
\* Handles of one binding used by several threads.  Each thread owns its
\* handles; the RC object and the T object are shared.  count is a plain
\* int: count++ (line 174) and --count (line 181) are a load, an
\* arithmetic step and a store, and other threads run between them.

\* The state main() has built before the threads start:
\* SP<T> p(new T(d)); SP<T> q = p;  (lines 271 and 275)
Blank ==
    [alive |-> [h \in Handles |-> "none"],
     pData |-> [h \in Handles |-> NullPtr],
     reference |-> [h \in Handles |-> NullPtr],
     rc |-> [c \in RCs |-> [made |-> FALSE, deletes |-> 0, count |-> 0]],
     obj |-> [v \in Vals |-> [made |-> FALSE, deletes |-> 0, data |-> 0]],
     rel |-> NoRel]

Shared(d) ==
    SPCopy(SPValue([Blank EXCEPT !.obj[1] = [made |-> TRUE, deletes |-> 0, data |-> d]],
                   1, 1),
           2, 1)

InitThreads ==
    /\ \E d \in FreshData :
          /\ alive = Shared(d).alive
          /\ pData = Shared(d).pData
          /\ reference = Shared(d).reference
          /\ rc = Shared(d).rc
          /\ obj = Shared(d).obj
    /\ linked = {}
    /\ mainPc = Off
    /\ pc = [h \in Handles |-> "idle"]
    /\ reg = [h \in Handles |-> 0]
    /\ src = [h \in Handles |-> 0]

\* The handles no member function is running on.
Idle == {h \in Live : pc[h] = "idle"}

\* SP(const SP<T>& sp) : pData(sp.pData), reference(sp.reference)
\* The thread that owns sp copies it; sp is in use until the body ends.
CopyInit(h, sp) ==
    /\ IsNextHandle(h)
    /\ sp \in Idle
    /\ alive' = [alive EXCEPT ![h] = "live"]
    /\ pData' = [pData EXCEPT ![h] = pData[sp]]
    /\ reference' = [reference EXCEPT ![h] = reference[sp]]
    /\ pc' = [pc EXCEPT ![h] = "AddRefLoad", ![sp] = "copied"]
    /\ src' = [src EXCEPT ![h] = sp]
    /\ UNCHANGED <<rc, obj, linked, mainPc, reg>>

\* count++ : the load
AddRefLoad(h) ==
    /\ h \in Live
    /\ pc[h] = "AddRefLoad"
    /\ reg' = [reg EXCEPT ![h] = rc[reference[h]].count]
    /\ pc' = [pc EXCEPT ![h] = "AddRefStore"]
    /\ UNCHANGED <<alive, pData, reference, rc, obj, linked, mainPc, src>>

\* count++ : the store; the copy constructor returns
AddRefStore(h) ==
    /\ h \in Live
    /\ pc[h] = "AddRefStore"
    /\ rc' = [rc EXCEPT ![reference[h]].count = reg[h] + 1]
    /\ pc' = [pc EXCEPT ![h] = "idle", ![src[h]] = "idle"]
    /\ reg' = [reg EXCEPT ![h] = 0]
    /\ src' = [src EXCEPT ![h] = 0]
    /\ UNCHANGED <<alive, pData, reference, obj, linked, mainPc>>

\* ~SP() calls reference->Release();  --count : the load
ReleaseLoad(h) ==
    /\ h \in Idle
    /\ reg' = [reg EXCEPT ![h] = rc[reference[h]].count]
    /\ pc' = [pc EXCEPT ![h] = "ReleaseStore"]
    /\ UNCHANGED <<alive, pData, reference, rc, obj, linked, mainPc, src>>

\* --count : the store
ReleaseStore(h) ==
    /\ h \in Live
    /\ pc[h] = "ReleaseStore"
    /\ rc' = [rc EXCEPT ![reference[h]].count = reg[h] - 1]
    /\ reg' = [reg EXCEPT ![h] = reg[h] - 1]
    /\ pc' = [pc EXCEPT ![h] = "ReleaseReturn"]
    /\ UNCHANGED <<alive, pData, reference, obj, linked, mainPc, src>>

\* return --count;  the value of the expression is the lvalue count: the
\* build returns the value it stored, or reads count again.
ReleaseReturn(h) ==
    /\ h \in Live
    /\ pc[h] = "ReleaseReturn"
    /\ \E ret \in {reg[h], rc[reference[h]].count} :
          reg' = [reg EXCEPT ![h] = ret]
    /\ pc' = [pc EXCEPT ![h] = "Test"]
    /\ UNCHANGED <<alive, pData, reference, rc, obj, linked, mainPc, src>>

\* if(... == 0) { delete pData; delete reference; }   and the object ends
DtorTest(h) ==
    /\ h \in Live
    /\ pc[h] = "Test"
    /\ LET n == IF reg[h] = 0
                THEN DeleteRC(DeleteT(Cur, pData[h]), reference[h])
                ELSE Cur
       IN  /\ rc' = n.rc
           /\ obj' = n.obj
    /\ alive' = [alive EXCEPT ![h] = "destroyed"]
    /\ pData' = [pData EXCEPT ![h] = NullPtr]
    /\ reference' = [reference EXCEPT ![h] = NullPtr]
    /\ pc' = [pc EXCEPT ![h] = "idle"]
    /\ reg' = [reg EXCEPT ![h] = 0]
    /\ UNCHANGED <<linked, mainPc, src>>

NextThreads ==
    \/ \E h \in Handles, sp \in Handles : CopyInit(h, sp)
    \/ \E h \in Handles : AddRefLoad(h)
    \/ \E h \in Handles : AddRefStore(h)
    \/ \E h \in Handles : ReleaseLoad(h)
    \/ \E h \in Handles : ReleaseStore(h)
    \/ \E h \in Handles : ReleaseReturn(h)
    \/ \E h \in Handles : DtorTest(h)

SpecThreads == InitThreads /\ [][NextThreads]_vars

\* ---------------------------------------------------------------------
\* C16 (concurrent release): when threads destroy and copy handles of one
\* binding, the decrement and the zero test of a destructor act as one
\* atomic fetch-and-subtract: the value and the counter are never
\* released twice, and once every handle is destroyed they have been
\* released exactly once (exactly one destructor saw zero).

C16_NoDoubleFree ==
    /\ \A v \in Vals : obj[v].deletes <= 1
    /\ \A c \in RCs : rc[c].deletes <= 1

C16_LastOneReleases ==
    Live = {}
        => /\ \A v \in Vals : obj[v].made => obj[v].deletes = 1
           /\ \A c \in RCs : rc[c].made => rc[c].deletes = 1

C16_AtomicRelease == C16_NoDoubleFree /\ C16_LastOneReleases

====
